---- MODULE Spec2Model ----
(***************************************************************************)
(* The quiz session of static/js/quiz.js (class QuizApp) as a state        *)
(* machine.  The state is the fields of the QuizApp object together with   *)
(* the parts of the page the handlers read and write: the active screen,   *)
(* the submit modal, the warning class of the timer, the option elements   *)
(* rendered by showQuestion, and the interval timers created by            *)
(* setInterval that have not been cleared.                                 *)
(*                                                                         *)
(* Every action is one handler registered in setupEventListeners (or one   *)
(* firing of the interval callback, or the completion of the asynchronous  *)
(* load).  A handler has the guards its code has and no others: the code   *)
(* never tests which screen is active except in handleKeyPress.  A click   *)
(* handler that is attached to an element created at run time (an option   *)
(* of the rendered question, a button of the question grid) exists only    *)
(* once that element has been created.                                     *)
(***************************************************************************)
EXTENDS Integers, Sequences, FiniteSets

\* ------------------------------------------------------------------ bounds

\* The session duration in seconds.  The code uses 90 * 60 (quiz.js:10 and
\* quiz.js:370); the model counts down from a small number of seconds.
Duration == 2

\* The remaining time at and below which the warning class is added.  The
\* code uses 300 (quiz.js:148); scaled with Duration.
WarningThreshold == 1

\* The wall clock (new Date()) takes the values 0..MaxClock.
MaxClock == 1

\* At most this many interval timers are alive at once.
MaxIntervals == 2

\* The countdown is followed at most this far below zero.
MaxOvershoot == 1

\* The longest question list for which the percentage is computed.
MaxQuestions == 40

\* Requests of one kind the home page has in flight at a time.
MaxInFlight == 2

\* The bits of the significand of a Number (IEEE 754 binary64).
MantissaBits == 53

\* ------------------------------------------------------------ question data

\* A question record {question, options, answer}: the model keeps the number
\* of options and the index of the correct one.
Question(n, a) == [options |-> n, answer |-> a]

\* The list substituted when the fetch or the parse fails (quiz.js:71-77).
Placeholder == << Question(4, 0) >>

\* The lists /static/questions.json may hold.
QuestionLists ==
  { << >>,
    << Question(2, 1) >>,
    << Question(1, 0), Question(2, 1) >> }

\* null in this.startTime and this.endTime; a Date is a number >= 0.
Null == 0 - 1

\* undefined: what reading a property an object does not have yields, be it
\* an index absent from this.userAnswers or the answer of a record that has
\* no answer field.  An option index is a number >= 0.
Undefined == 0 - 2

\* Value of the history variable ticks when no run of a session is counted.
NoCount == 0 - 1

VARIABLES
  questions,              \* this.questions
  loading,                \* loadQuestions has not completed yet
  currentQuestionIndex,   \* this.currentQuestionIndex (0-based)
  userAnswers,            \* this.userAnswers: question index -> option index
  bookmarkedQuestions,    \* this.bookmarkedQuestions
  score,                  \* this.score
  timer,                  \* this.timer holds a handle (TRUE) or null (FALSE)
  intervals,              \* number of setInterval timers not yet cleared
  timeRemaining,          \* this.timeRemaining
  startTime,              \* this.startTime
  endTime,                \* this.endTime
  now,                    \* the value new Date() returns
  screen,                 \* the screen element carrying the class 'active'
  submitModal,            \* the submit modal is shown (lacks class 'hidden')
  warning,                \* the timer display carries the class 'warning'
  renderedOptions,        \* number of option elements in optionsContainer
  ticks,                  \* history: interval callbacks since the last startQuiz
  lastChoice              \* history: per question, the option clicked last
                          \* since the fields were last initialised

\* The home page (its script runs in another document than QuizApp).
VARIABLES
  pageSelect,             \* pageSelect.value: "" or the title of an option
  pageOptions,            \* the titles offered as options of pageSelect
  quizBtnDisabled,        \* quizBtn.disabled
  chatBtnDisabled,        \* chatBtn.disabled
  loadingHidden,          \* the loading overlay carries the class 'hidden'
  href,                   \* window.location.href, as path and page_title
  pagesRequests,          \* loadPages calls awaiting /api/notion-pages
  refreshRequests,        \* refreshPages calls awaiting /api/refresh-notion
  quizRequests            \* startQuiz calls awaiting /api/generate-quiz,
                          \* each with the page_title its body carries

quizVars == << questions, loading, currentQuestionIndex, userAnswers,
               bookmarkedQuestions, score, timer, intervals, timeRemaining,
               startTime, endTime, now, screen, submitModal, warning,
               renderedOptions, ticks, lastChoice >>

homeVars == << pageSelect, pageOptions, quizBtnDisabled, chatBtnDisabled,
               loadingHidden, href, pagesRequests, refreshRequests,
               quizRequests >>

vars == << questions, loading, currentQuestionIndex, userAnswers,
           bookmarkedQuestions, score, timer, intervals, timeRemaining,
           startTime, endTime, now, screen, submitModal, warning,
           renderedOptions, ticks, lastChoice,
           pageSelect, pageOptions, quizBtnDisabled, chatBtnDisabled,
           loadingHidden, href, pagesRequests, refreshRequests,
           quizRequests >>

\* ------------------------------------------------------------------ helpers

\* questions.length
N == Len(questions)

\* this.questions[i] for a 0-based index i; exists iff 0 <= i < N
HasQuestion(i) == i >= 0 /\ i < N
QuestionAt(i) == questions[i + 1]

\* The phase of the session is not a field of QuizApp: it is the screen that
\* showScreen made active.  isQuizActive() is Phase = "InProgress".
Phase ==
  CASE screen = "start" -> "NotStarted"
    [] screen = "quiz" -> "InProgress"
    [] OTHER -> "Submitted"

isQuizActive == screen = "quiz"

\* this.userAnswers[i]: undefined for an index that has no entry.
Get(ans, i) == IF i \in DOMAIN ans THEN ans[i] ELSE Undefined

\* calculateScore: the number of questions whose recorded answer is strictly
\* equal to question.answer.
calculateScore_skipsFirst(qs, ans) ==
  Cardinality({ i \in 1..(Len(qs) - 1) : Get(ans, i) = qs[i + 1].answer })

calculateScore(qs, ans) ==
  Cardinality({ i \in 0..(Len(qs) - 1) : Get(ans, i) = qs[i + 1].answer })

\* showReview, per question: isCorrect = (userAnswer === question.answer).
isCorrect(i) == Get(userAnswers, i) = QuestionAt(i).answer

\* The review records showReview draws that are marked 'Correct'.
reviewCorrect == { i \in 0..(N - 1) : isCorrect(i) }

\* showQuestion: returns early when there is no question at the current
\* index (the container keeps its elements); otherwise the container is
\* emptied and one element per option is appended.
showQuestion(i) == IF HasQuestion(i) THEN QuestionAt(i).options ELSE renderedOptions

\* stopTimer: clears the interval this.timer refers to, if any.
stopTimerIntervals == IF timer THEN intervals - 1 ELSE intervals

\* this.userAnswers[i] = k
Record(ans, i, k) == [ j \in (DOMAIN ans) \cup {i} |-> IF j = i THEN k ELSE ans[j] ]

EmptyAnswers == [ j \in {} |-> 0 ]

\* a % b of JavaScript for b > 0: the remainder has the sign of a.
JsRem(a, b) == IF a >= 0 THEN a % b ELSE 0 - ((0 - a) % b)

\* The two numbers of the text minutes:seconds that the interval callback
\* and showSubmitModal write for t seconds: Math.floor(t / 60) and t % 60.
timerText(t) == [ minutes |-> t \div 60, seconds |-> JsRem(t, 60) ]

\* What showReview draws for question i.
reviewRecord(i) ==
  [ options |-> QuestionAt(i).options,
    answer |-> QuestionAt(i).answer,
    userAnswer |-> Get(userAnswers, i),
    isCorrect |-> isCorrect(i) ]

reviewRecords == [ i \in 0..(N - 1) |-> reviewRecord(i) ]

\* A Date as a number (null converts to 0), in seconds.
DateValue(d) == IF d = Null THEN 0 ELSE d

\* showResults: Math.floor((this.endTime - this.startTime) / 1000).
totalTimeTaken == DateValue(endTime) - DateValue(startTime)

\* What showSubmitModal writes into the modal.
submitSummary ==
  [ answered |-> Cardinality(DOMAIN userAnswers),
    total |-> N,
    time |-> timerText(timeRemaining) ]

\* The bookmark set after toggleBookmark at index i.
Flip(b, i) == IF i \in b THEN b \ {i} ELSE b \cup {i}

\* ------------------------------------------------ Number arithmetic
\* A positive Number is [s2, s1, s0, e]: its significand, an integer S of
\* MantissaBits bits (the first one set), is held as three digits to the
\* base Limb, S = s2 * Limb^2 + s1 * Limb + s0, and the value is
\* S * 2^(e - (MantissaBits - 1)).  Every intermediate result stays well
\* inside the range of the integers of the checker.
Limb == 2^18

\* The weight of the first bit of the significand within digit s2.
HiOne == 2^(MantissaBits - 37)

\* The significand plus one unit in the last place.
NextUp(x) ==
  IF x.s0 + 1 < Limb THEN [ x EXCEPT !.s0 = @ + 1 ]
  ELSE IF x.s1 + 1 < Limb THEN [ x EXCEPT !.s0 = 0, !.s1 = @ + 1 ]
  ELSE IF x.s2 + 1 < 2 * HiOne THEN [ x EXCEPT !.s0 = 0, !.s1 = 0, !.s2 = @ + 1 ]
  ELSE [ s2 |-> HiOne, s1 |-> 0, s0 |-> 0, e |-> x.e + 1 ]

\* Round to nearest, ties to even: x is the exact result cut off after
\* MantissaBits bits and rem / unit, in [0, 1), is the part cut off.
Nearest(x, rem, unit) ==
  IF 2 * rem > unit \/ (2 * rem = unit /\ x.s0 % 2 = 1) THEN NextUp(x) ELSE x

\* c doubled until n <= c < 2n, for 0 < c <= n, with the exponent that
\* the first bit of c / n then has.
RECURSIVE Scale(_, _, _)
Scale(c, n, e) == IF c >= n THEN [ r |-> c, e |-> e ] ELSE Scale(2 * c, n, e - 1)

\* c / n for integers 0 < c <= n: long division to the base Limb, rounded.
NumberDiv(c, n) ==
  LET s  == Scale(c, n, 0)
      t2 == s.r * HiOne
      t1 == (t2 % n) * Limb
      t0 == (t1 % n) * Limb
  IN Nearest([ s2 |-> t2 \div n, s1 |-> t1 \div n, s0 |-> t0 \div n, e |-> s.e ],
             t0 % n, n)

\* x * k for a Number x and an integer 1 <= k < Limb: the exact product,
\* shifted right until it has MantissaBits bits again, rounded.
NumberMul(x, k) ==
  LET t0 == x.s0 * k
      t1 == x.s1 * k + (t0 \div Limb)
      p2 == x.s2 * k + (t1 \div Limb)
      p1 == t1 % Limb
      p0 == t0 % Limb
      sh == CHOOSE j \in 0..18 : HiOne <= p2 \div (2^j) /\ p2 \div (2^j) < 2 * HiOne
      D  == 2^sh
      U  == Limb \div D
  IN Nearest([ s2 |-> p2 \div D,
               s1 |-> (p2 % D) * U + (p1 \div D),
               s0 |-> (p1 % D) * U + (p0 \div D),
               e  |-> x.e + sh ],
             p0 % D, D)

\* Math.round(x) for a Number x < 2^(MantissaBits - 37): the nearest integer,
\* a tie going up, that is floor((floor(2x) + 1) / 2).
MathRound(x) ==
  IF x.e < 0 - 1 THEN 0
  ELSE ((x.s2 \div (2^(MantissaBits - 38 - x.e))) + 1) \div 2

\* Math.round((correct / this.questions.length) * 100) for a list that has
\* questions.
percentage(correct, length) ==
  IF correct = 0 THEN 0 ELSE MathRound(NumberMul(NumberDiv(correct, length), 100))

\* ---------------------------------------------------------------- home page

\* Titles of the Notion pages /api/notion-pages may list.
Titles == { "Notes", "Tasks" }

\* The value of the option 'Select a Notion page', and of a select element
\* that has no option.
NoPage == ""

\* window.location.href as the path followed by the page_title its query
\* decodes to (encodeURIComponent is undone by the reader of the query).
homeUrl == << "/" >>
quizUrl(title) == << "/quiz.html", title >>
chatUrl(title) == << "/chat.html", title >>

\* What a request comes back with: a body whose status is 'success', a body
\* with another status, or a rejection of fetch or of response.json().
Outcomes == { "success", "error", "rejected" }

\* The home page's variables while the quiz page is the open document.
homeLeft ==
  /\ pageSelect = NoPage
  /\ pageOptions = {}
  /\ quizBtnDisabled = TRUE
  /\ chatBtnDisabled = TRUE
  /\ loadingHidden = TRUE
  /\ href = << "/quiz.html" >>
  /\ pagesRequests = 0
  /\ refreshRequests = 0
  /\ quizRequests = << >>

\* -------------------------------------------------------------------- Init

\* The state the constructor leaves (quiz.js:3-12) when init() is awaiting
\* loadQuestions; the page shows the start screen, the modal is hidden.
Init ==
  /\ questions = << >>
  /\ loading = TRUE
  /\ currentQuestionIndex = 0
  /\ userAnswers = EmptyAnswers
  /\ bookmarkedQuestions = {}
  /\ score = 0
  /\ timer = FALSE
  /\ intervals = 0
  /\ timeRemaining = Duration
  /\ startTime = Null
  /\ endTime = Null
  /\ now = 0
  /\ screen = "start"
  /\ submitModal = FALSE
  /\ warning = FALSE
  /\ renderedOptions = 0
  /\ ticks = 0
  /\ lastChoice = EmptyAnswers
  /\ homeLeft

\* ------------------------------------------------------------------ actions

\* The wall clock moves on between events.
clockAdvance ==
  /\ now < MaxClock
  /\ now' = now + 1
  /\ UNCHANGED << questions, loading, currentQuestionIndex, userAnswers,
                  bookmarkedQuestions, score, timer, intervals, timeRemaining,
                  startTime, endTime, screen, submitModal, warning,
                  renderedOptions, ticks, lastChoice >>

\* loadQuestions completes: the parsed body of the response, or the
\* placeholder when fetch or response.json() throws.
loadQuestions ==
  /\ loading
  /\ \E q \in QuestionLists \cup {Placeholder} : questions' = q
  /\ loading' = FALSE
  /\ UNCHANGED << currentQuestionIndex, userAnswers, bookmarkedQuestions,
                  score, timer, intervals, timeRemaining, startTime, endTime,
                  now, screen, submitModal, warning, renderedOptions, ticks, lastChoice >>

\* startQuiz: shows the quiz screen, stamps startTime, creates a new interval
\* and stores its handle in this.timer (the previous handle, if any, is
\* overwritten without being cleared), renders the current question.
startQuiz ==
  /\ intervals < MaxIntervals
  /\ screen' = "quiz"
  /\ startTime' = now
  /\ intervals' = intervals + 1
  /\ timer' = TRUE
  /\ renderedOptions' = showQuestion(currentQuestionIndex)
  /\ ticks' = 0
  /\ UNCHANGED << questions, loading, currentQuestionIndex, userAnswers,
                  bookmarkedQuestions, score, timeRemaining, endTime, now,
                  submitModal, warning, lastChoice >>

\* What submitQuiz writes: endTime, calculateScore, stopTimer,
\* hideSubmitModal, showResults.
submitQuizResult ==
  [ endTime |-> now,
    score |-> calculateScore(questions, userAnswers),
    timer |-> FALSE,
    intervals |-> stopTimerIntervals,
    submitModal |-> FALSE,
    screen |-> "results" ]

\* What autoSubmitQuiz writes: endTime, calculateScore, stopTimer,
\* showResults; the modal is left as it is.
autoSubmitQuizResult ==
  [ endTime |-> now,
    score |-> calculateScore(questions, userAnswers),
    timer |-> FALSE,
    intervals |-> stopTimerIntervals,
    submitModal |-> submitModal,
    screen |-> "results" ]

Written(r) ==
  /\ endTime' = r.endTime
  /\ score' = r.score
  /\ timer' = r.timer
  /\ intervals' = r.intervals
  /\ submitModal' = r.submitModal
  /\ screen' = r.screen

\* One firing of the interval callback of startTimer, for any interval that
\* has not been cleared.  The history variable ticks counts the firings
\* since startQuiz, up to Duration + 1, unless a confirm click or a restart
\* ended the count.
timerTick ==
  /\ intervals > 0
  /\ timeRemaining > 0 - MaxOvershoot
  /\ timeRemaining' = timeRemaining - 1
  /\ warning' = IF timeRemaining' <= WarningThreshold /\ timeRemaining' > 0
                THEN TRUE ELSE warning
  /\ IF timeRemaining' <= 0
     THEN Written(autoSubmitQuizResult)
     ELSE UNCHANGED << endTime, score, timer, intervals, submitModal, screen >>
  /\ ticks' = IF ticks >= 0 /\ ticks <= Duration THEN ticks + 1 ELSE ticks
  /\ UNCHANGED << questions, loading, currentQuestionIndex, userAnswers,
                  bookmarkedQuestions, startTime, now, renderedOptions,
                  lastChoice >>

\* Click on the option element with captured index k of the rendered
\* question: records k for the question that is current now, re-renders.
selectOption ==
  /\ \E k \in 0..(renderedOptions - 1) :
       /\ userAnswers' = Record(userAnswers, currentQuestionIndex, k)
       /\ lastChoice' = [ j \in (DOMAIN lastChoice) \cup {currentQuestionIndex} |->
                           IF j = currentQuestionIndex THEN k ELSE lastChoice[j] ]
  /\ renderedOptions' = showQuestion(currentQuestionIndex)
  /\ UNCHANGED << questions, loading, currentQuestionIndex,
                  bookmarkedQuestions, score, timer, intervals, timeRemaining,
                  startTime, endTime, now, screen, submitModal, warning, ticks >>

\* nextQuestion without the test for the last question: from the last
\* question it goes round to the first.
nextQuestion_wraps ==
  /\ currentQuestionIndex' =
       IF currentQuestionIndex < N - 1 THEN currentQuestionIndex + 1 ELSE 0
  /\ renderedOptions' = showQuestion(currentQuestionIndex')
  /\ UNCHANGED << questions, loading, userAnswers, bookmarkedQuestions, score,
                  timer, intervals, timeRemaining, startTime, endTime, now,
                  screen, submitModal, warning, ticks, lastChoice >>

previousQuestion ==
  /\ IF currentQuestionIndex > 0
     THEN /\ currentQuestionIndex' = currentQuestionIndex - 1
          /\ renderedOptions' = showQuestion(currentQuestionIndex - 1)
     ELSE UNCHANGED << currentQuestionIndex, renderedOptions >>
  /\ UNCHANGED << questions, loading, userAnswers, bookmarkedQuestions, score,
                  timer, intervals, timeRemaining, startTime, endTime, now,
                  screen, submitModal, warning, ticks, lastChoice >>

nextQuestion ==
  /\ IF currentQuestionIndex < N - 1
     THEN /\ currentQuestionIndex' = currentQuestionIndex + 1
          /\ renderedOptions' = showQuestion(currentQuestionIndex + 1)
     ELSE UNCHANGED << currentQuestionIndex, renderedOptions >>
  /\ UNCHANGED << questions, loading, userAnswers, bookmarkedQuestions, score,
                  timer, intervals, timeRemaining, startTime, endTime, now,
                  screen, submitModal, warning, ticks, lastChoice >>

\* goToQuestion that also puts the countdown back to the full duration.
goToQuestionAt_resetsTime(index) ==
  /\ currentQuestionIndex' = index
  /\ renderedOptions' = showQuestion(index)
  /\ timeRemaining' = Duration
  /\ UNCHANGED << questions, loading, userAnswers, bookmarkedQuestions, score,
                  timer, intervals, startTime, endTime, now, screen,
                  submitModal, warning, ticks, lastChoice >>

\* goToQuestion(index): the index is stored as it comes, and showQuestion
\* returns early when there is no such question.
goToQuestionAt(index) ==
  /\ currentQuestionIndex' = index
  /\ renderedOptions' = showQuestion(index)
  /\ UNCHANGED << questions, loading, userAnswers, bookmarkedQuestions, score,
                  timer, intervals, timeRemaining, startTime, endTime, now,
                  screen, submitModal, warning, ticks, lastChoice >>

\* Click on button i of the question grid; generateQuestionGrid made one
\* button per question when the load completed.
goToQuestion ==
  \E i \in 0..(N - 1) : goToQuestionAt(i)

\* toggleBookmark whose delete branch clears the whole set.
toggleBookmark_clearsOnDelete ==
  /\ bookmarkedQuestions' =
       IF currentQuestionIndex \in bookmarkedQuestions
       THEN {}
       ELSE bookmarkedQuestions \cup {currentQuestionIndex}
  /\ UNCHANGED << questions, loading, currentQuestionIndex, userAnswers, score,
                  timer, intervals, timeRemaining, startTime, endTime, now,
                  screen, submitModal, warning, renderedOptions, ticks, lastChoice >>

toggleBookmark ==
  /\ bookmarkedQuestions' =
       IF currentQuestionIndex \in bookmarkedQuestions
       THEN bookmarkedQuestions \ {currentQuestionIndex}
       ELSE bookmarkedQuestions \cup {currentQuestionIndex}
  /\ UNCHANGED << questions, loading, currentQuestionIndex, userAnswers, score,
                  timer, intervals, timeRemaining, startTime, endTime, now,
                  screen, submitModal, warning, renderedOptions, ticks, lastChoice >>

\* showSubmitModal that also calls stopTimer.
showSubmitModal_stopsTimer ==
  /\ submitModal' = TRUE
  /\ timer' = FALSE
  /\ intervals' = stopTimerIntervals
  /\ UNCHANGED << questions, loading, currentQuestionIndex, userAnswers,
                  bookmarkedQuestions, score, timeRemaining, startTime,
                  endTime, now, screen, warning, renderedOptions, ticks,
                  lastChoice >>

showSubmitModal ==
  /\ submitModal' = TRUE
  /\ UNCHANGED << questions, loading, currentQuestionIndex, userAnswers,
                  bookmarkedQuestions, score, timer, intervals, timeRemaining,
                  startTime, endTime, now, screen, warning, renderedOptions, ticks, lastChoice >>

hideSubmitModal ==
  /\ submitModal' = FALSE
  /\ UNCHANGED << questions, loading, currentQuestionIndex, userAnswers,
                  bookmarkedQuestions, score, timer, intervals, timeRemaining,
                  startTime, endTime, now, screen, warning, renderedOptions, ticks, lastChoice >>

\* Click on confirm-submit.
submitQuiz ==
  /\ Written(submitQuizResult)
  /\ ticks' = NoCount
  /\ UNCHANGED << questions, loading, currentQuestionIndex, userAnswers,
                  bookmarkedQuestions, timeRemaining, startTime, now, warning,
                  renderedOptions, lastChoice >>

\* showReview that also calls calculateScore.
showReview_rescores ==
  /\ screen' = "review"
  /\ score' = calculateScore(questions, userAnswers)
  /\ UNCHANGED << questions, loading, currentQuestionIndex, userAnswers,
                  bookmarkedQuestions, timer, intervals, timeRemaining,
                  startTime, endTime, now, submitModal, warning,
                  renderedOptions, ticks, lastChoice >>

showReview ==
  /\ screen' = "review"
  /\ UNCHANGED << questions, loading, currentQuestionIndex, userAnswers,
                  bookmarkedQuestions, score, timer, intervals, timeRemaining,
                  startTime, endTime, now, submitModal, warning,
                  renderedOptions, ticks, lastChoice >>

hideReview ==
  /\ screen' = "results"
  /\ UNCHANGED << questions, loading, currentQuestionIndex, userAnswers,
                  bookmarkedQuestions, score, timer, intervals, timeRemaining,
                  startTime, endTime, now, submitModal, warning,
                  renderedOptions, ticks, lastChoice >>

\* restartQuiz resets the fields it lists and shows the start screen; it
\* does not touch this.timer, the modal, the warning class or the rendered
\* question.
restartQuiz ==
  /\ currentQuestionIndex' = 0
  /\ userAnswers' = EmptyAnswers
  /\ bookmarkedQuestions' = {}
  /\ score' = 0
  /\ timeRemaining' = Duration
  /\ startTime' = Null
  /\ endTime' = Null
  /\ screen' = "start"
  /\ ticks' = NoCount
  /\ lastChoice' = EmptyAnswers
  /\ UNCHANGED << questions, loading, timer, intervals, now, submitModal,
                  warning, renderedOptions >>

\* handleKeyPress without the test of isQuizActive.
handleKeyPress_unguarded ==
  /\ \E key \in {"ArrowRight", "ArrowLeft", "Enter"} :
       IF key = "Enter"
       THEN UNCHANGED << currentQuestionIndex, renderedOptions >>
       ELSE IF key = "ArrowRight"
            THEN IF currentQuestionIndex < N - 1
                 THEN /\ currentQuestionIndex' = currentQuestionIndex + 1
                      /\ renderedOptions' = showQuestion(currentQuestionIndex + 1)
                 ELSE UNCHANGED << currentQuestionIndex, renderedOptions >>
            ELSE IF currentQuestionIndex > 0
                 THEN /\ currentQuestionIndex' = currentQuestionIndex - 1
                      /\ renderedOptions' = showQuestion(currentQuestionIndex - 1)
                 ELSE UNCHANGED << currentQuestionIndex, renderedOptions >>
  /\ UNCHANGED << questions, loading, userAnswers, bookmarkedQuestions, score,
                  timer, intervals, timeRemaining, startTime, endTime, now,
                  screen, submitModal, warning, ticks, lastChoice >>

\* keydown on the document: ignored unless the quiz screen is active.
handleKeyPress ==
  /\ \E key \in {"ArrowRight", "ArrowLeft", "Enter"} :
       IF ~isQuizActive \/ key = "Enter"
       THEN UNCHANGED << currentQuestionIndex, renderedOptions >>
       ELSE IF key = "ArrowRight"
            THEN IF currentQuestionIndex < N - 1
                 THEN /\ currentQuestionIndex' = currentQuestionIndex + 1
                      /\ renderedOptions' = showQuestion(currentQuestionIndex + 1)
                 ELSE UNCHANGED << currentQuestionIndex, renderedOptions >>
            ELSE IF currentQuestionIndex > 0
                 THEN /\ currentQuestionIndex' = currentQuestionIndex - 1
                      /\ renderedOptions' = showQuestion(currentQuestionIndex - 1)
                 ELSE UNCHANGED << currentQuestionIndex, renderedOptions >>
  /\ UNCHANGED << questions, loading, userAnswers, bookmarkedQuestions, score,
                  timer, intervals, timeRemaining, startTime, endTime, now,
                  screen, submitModal, warning, ticks, lastChoice >>

Next ==
  \/ clockAdvance /\ UNCHANGED homeVars
  \/ loadQuestions /\ UNCHANGED homeVars
  \/ startQuiz /\ UNCHANGED homeVars
  \/ timerTick /\ UNCHANGED homeVars
  \/ selectOption /\ UNCHANGED homeVars
  \/ previousQuestion /\ UNCHANGED homeVars
  \/ nextQuestion /\ UNCHANGED homeVars
  \/ goToQuestion /\ UNCHANGED homeVars
  \/ toggleBookmark /\ UNCHANGED homeVars
  \/ showSubmitModal /\ UNCHANGED homeVars
  \/ hideSubmitModal /\ UNCHANGED homeVars
  \/ submitQuiz /\ UNCHANGED homeVars
  \/ showReview /\ UNCHANGED homeVars
  \/ hideReview /\ UNCHANGED homeVars
  \/ restartQuiz /\ UNCHANGED homeVars
  \/ handleKeyPress /\ UNCHANGED homeVars

Spec == Init /\ [][Next]_vars

\* goToQuestion called as a method of the QuizApp object, with an index that
\* need not belong to a grid button: one below the first and one above the
\* last question are the two nearest such indices.
CallIndices == (0 - 1)..N

goToQuestionCall ==
  \E index \in CallIndices : goToQuestionAt(index)

\* The session driven by method calls alone: load, start, the interval
\* callback, an option click, a jump to any index, submit and restart.
NextCall ==
  \/ loadQuestions /\ UNCHANGED homeVars
  \/ startQuiz /\ UNCHANGED homeVars
  \/ timerTick /\ UNCHANGED homeVars
  \/ selectOption /\ UNCHANGED homeVars
  \/ goToQuestionCall /\ UNCHANGED homeVars
  \/ submitQuiz /\ UNCHANGED homeVars
  \/ restartQuiz /\ UNCHANGED homeVars

SpecCall == Init /\ [][NextCall]_vars

\* The bodies /static/questions.json may hold when its records need not be
\* complete: a record without an answer field is stored as it comes.
RecordLists == QuestionLists \cup { << Question(2, Undefined) >> }

loadRecords ==
  /\ loading
  /\ \E q \in RecordLists \cup {Placeholder} : questions' = q
  /\ loading' = FALSE
  /\ UNCHANGED << currentQuestionIndex, userAnswers, bookmarkedQuestions,
                  score, timer, intervals, timeRemaining, startTime, endTime,
                  now, screen, submitModal, warning, renderedOptions, ticks,
                  lastChoice >>

\* The session over any list of records: load, start, the interval callback,
\* option clicks, submit, the review and restart.
NextRecords ==
  \/ loadRecords /\ UNCHANGED homeVars
  \/ startQuiz /\ UNCHANGED homeVars
  \/ timerTick /\ UNCHANGED homeVars
  \/ selectOption /\ UNCHANGED homeVars
  \/ submitQuiz /\ UNCHANGED homeVars
  \/ showReview /\ UNCHANGED homeVars
  \/ hideReview /\ UNCHANGED homeVars
  \/ restartQuiz /\ UNCHANGED homeVars

SpecRecords == Init /\ [][NextRecords]_vars

\* A list of n questions of one option each.
LongList(n) == [ i \in 1..n |-> Question(1, 0) ]

\* The first c questions answered with option 0.
FirstAnswered(c) == [ i \in 0..(c - 1) |-> 0 ]

\* A session in progress over a list of 1..MaxQuestions questions of which
\* the first c are answered, and answered right.
InitResults ==
  /\ \E n \in 1..MaxQuestions : \E c \in 0..n :
       /\ questions = LongList(n)
       /\ userAnswers = FirstAnswered(c)
       /\ lastChoice = FirstAnswered(c)
  /\ loading = FALSE
  /\ currentQuestionIndex = 0
  /\ bookmarkedQuestions = {}
  /\ score = 0
  /\ timer = TRUE
  /\ intervals = 1
  /\ timeRemaining = Duration
  /\ startTime = 0
  /\ endTime = Null
  /\ now = 0
  /\ screen = "quiz"
  /\ submitModal = FALSE
  /\ warning = FALSE
  /\ renderedOptions = 1
  /\ ticks = 0
  /\ homeLeft

\* From there: the modal, submit, the review and back.
NextResults ==
  \/ showSubmitModal /\ UNCHANGED homeVars
  \/ submitQuiz /\ UNCHANGED homeVars
  \/ showReview /\ UNCHANGED homeVars
  \/ hideReview /\ UNCHANGED homeVars

SpecResults == InitResults /\ [][NextResults]_vars

\* ------------------------------------------------------- home page: actions

\* The home page once its DOMContentLoaded listener has run: the listeners
\* are registered and loadPages() awaits its fetch with the overlay shown.
\* The markup decides whether the two buttons start disabled.
InitHome ==
  /\ pageSelect = NoPage
  /\ pageOptions = {}
  /\ quizBtnDisabled \in BOOLEAN
  /\ chatBtnDisabled \in BOOLEAN
  /\ loadingHidden = FALSE
  /\ href = homeUrl
  /\ pagesRequests = 1
  /\ refreshRequests = 0
  /\ quizRequests = << >>
  /\ questions = << >>
  /\ loading = TRUE
  /\ currentQuestionIndex = 0
  /\ userAnswers = EmptyAnswers
  /\ bookmarkedQuestions = {}
  /\ score = 0
  /\ timer = FALSE
  /\ intervals = 0
  /\ timeRemaining = Duration
  /\ startTime = Null
  /\ endTime = Null
  /\ now = 0
  /\ screen = "start"
  /\ submitModal = FALSE
  /\ warning = FALSE
  /\ renderedOptions = 0
  /\ ticks = 0
  /\ lastChoice = EmptyAnswers

\* toggleButtons for a select whose value is v: the value both buttons'
\* disabled property gets.
toggleButtons(v) == ~(v # NoPage)

\* A sequence without its i-th element.
Without(seq, i) == [ j \in 1..(Len(seq) - 1) |-> IF j < i THEN seq[j] ELSE seq[j + 1] ]

\* The user picks another option of pageSelect: the change event calls
\* toggleButtons.
changePage ==
  /\ \E v \in ({NoPage} \cup pageOptions) \ {pageSelect} :
       /\ pageSelect' = v
       /\ quizBtnDisabled' = toggleButtons(v)
       /\ chatBtnDisabled' = toggleButtons(v)
  /\ UNCHANGED << pageOptions, loadingHidden, href, pagesRequests,
                  refreshRequests, quizRequests >>
  /\ UNCHANGED quizVars

\* A loadPages call resumes after its fetch.  On status 'success' the options
\* are rebuilt from data.pages behind the option with the empty value, which
\* becomes the selected one; otherwise an alert and nothing else.  In every
\* case the overlay is hidden and toggleButtons runs.  (A refreshPages call
\* that awaited this loadPages then hides the overlay once more.)
loadPagesReturns ==
  /\ pagesRequests > 0
  /\ pagesRequests' = pagesRequests - 1
  /\ \E r \in Outcomes :
       IF r = "success"
         THEN /\ \E pages \in SUBSET Titles : pageOptions' = pages
              /\ pageSelect' = NoPage
         ELSE UNCHANGED << pageOptions, pageSelect >>
  /\ loadingHidden' = TRUE
  /\ quizBtnDisabled' = toggleButtons(pageSelect')
  /\ chatBtnDisabled' = toggleButtons(pageSelect')
  /\ UNCHANGED << href, refreshRequests, quizRequests >>
  /\ UNCHANGED quizVars

\* Click on refreshBtn: the overlay is shown and the request is sent.
refreshPages ==
  /\ refreshRequests < MaxInFlight
  /\ loadingHidden' = FALSE
  /\ refreshRequests' = refreshRequests + 1
  /\ UNCHANGED << pageSelect, pageOptions, quizBtnDisabled, chatBtnDisabled,
                  href, pagesRequests, quizRequests >>
  /\ UNCHANGED quizVars

\* A refreshPages call resumes after its fetch: on status 'success' it calls
\* loadPages, which shows the overlay and sends its own request; otherwise an
\* alert, and the overlay is hidden.
refreshPagesReturns ==
  /\ refreshRequests > 0
  /\ refreshRequests' = refreshRequests - 1
  /\ \E r \in Outcomes :
       IF r = "success"
         THEN /\ pagesRequests < MaxInFlight
              /\ loadingHidden' = FALSE
              /\ pagesRequests' = pagesRequests + 1
         ELSE /\ loadingHidden' = TRUE
              /\ UNCHANGED pagesRequests
  /\ UNCHANGED << pageSelect, pageOptions, quizBtnDisabled, chatBtnDisabled,
                  href, quizRequests >>
  /\ UNCHANGED quizVars

\* Click on quizBtn, which a disabled button does not deliver: startQuiz up
\* to its await.  Without a selected page it returns at once; with one it
\* shows the overlay and posts the selected title to /api/generate-quiz.
startQuizHome ==
  /\ ~quizBtnDisabled
  /\ Len(quizRequests) < MaxInFlight
  /\ IF ~(pageSelect # NoPage)
       THEN UNCHANGED << loadingHidden, quizRequests >>
       ELSE /\ loadingHidden' = FALSE
            /\ quizRequests' = Append(quizRequests, pageSelect)
  /\ UNCHANGED << pageSelect, pageOptions, quizBtnDisabled, chatBtnDisabled,
                  href, pagesRequests, refreshRequests >>
  /\ UNCHANGED quizVars

\* The startQuiz call that sent request i resumes with outcome r: on status
\* 'success' location.href is set to the quiz page of the title pageSelect
\* holds now; otherwise an alert.  In every case the overlay is hidden.
startQuizReturnsWith(i, r) ==
  /\ i \in 1..Len(quizRequests)
  /\ quizRequests' = Without(quizRequests, i)
  /\ IF r = "success"
       THEN href' = quizUrl(pageSelect)
       ELSE UNCHANGED href
  /\ loadingHidden' = TRUE
  /\ UNCHANGED << pageSelect, pageOptions, quizBtnDisabled, chatBtnDisabled,
                  pagesRequests, refreshRequests >>
  /\ UNCHANGED quizVars

startQuizReturns ==
  \E i \in 1..Len(quizRequests) : \E r \in Outcomes : startQuizReturnsWith(i, r)

\* Click on chatBtn: startChat navigates at once when a page is selected.
startChat ==
  /\ ~chatBtnDisabled
  /\ IF ~(pageSelect # NoPage)
       THEN UNCHANGED href
       ELSE href' = chatUrl(pageSelect)
  /\ UNCHANGED << pageSelect, pageOptions, quizBtnDisabled, chatBtnDisabled,
                  loadingHidden, pagesRequests, refreshRequests, quizRequests >>
  /\ UNCHANGED quizVars

NextHome ==
  \/ changePage
  \/ loadPagesReturns
  \/ refreshPages
  \/ refreshPagesReturns
  \/ startQuizHome
  \/ startQuizReturns
  \/ startChat

SpecHome == InitHome /\ [][NextHome]_vars

\* ------------------------------------------------------------------- claims

\* A step in which the session is submitted: the click on confirm-submit, or
\* the interval callback that finds timeRemaining <= 0 and calls
\* autoSubmitQuiz.
ConfirmStep == submitQuiz
AutoSubmitStep == timerTick /\ timeRemaining' <= 0

\* The number of questions whose last clicked option is the correct one.
LastChoiceCorrect ==
  Cardinality({ i \in DOMAIN lastChoice :
                  HasQuestion(i) /\ lastChoice[i] = QuestionAt(i).answer })

\* C1: for every question list of length N >= 1 and every sequence of option
\* clicks, the score written by a submission (confirm or timer) is the number
\* of questions whose last clicked option is the question's correct option;
\* an earlier choice for a re-answered question does not count.
C1_ScoreCountsLastChoices ==
  [][ (screen' = "results" /\ N >= 1 /\ (ConfirmStep \/ AutoSubmitStep))
        => score' = LastChoiceCorrect' ]_vars

\* C1 witness: a submitted two-question session with one right and one wrong
\* answer recorded and a score of 1.
C1_Witness ==
  /\ screen = "results"
  /\ endTime # Null
  /\ N = 2
  /\ DOMAIN userAnswers = {0, 1}
  /\ userAnswers[0] = QuestionAt(0).answer
  /\ userAnswers[1] # QuestionAt(1).answer
  /\ score = 1

\* C2: timeRemaining is never negative; it never increases between two
\* states that are both InProgress; and when the interval callback moves the
\* session from InProgress to Submitted, timeRemaining is exactly 0.
C2_RemainingNeverNegative ==
  [][ /\ timeRemaining' >= 0
      /\ (Phase = "InProgress" /\ Phase' = "InProgress"
            => timeRemaining' <= timeRemaining)
      /\ (Phase = "InProgress" /\ Phase' = "Submitted" /\ AutoSubmitStep
            => timeRemaining' = 0) ]_vars

\* The second conjunct of C2 alone.
C2_NonIncreasingInProgress ==
  [][ Phase = "InProgress" /\ Phase' = "InProgress"
        => timeRemaining' <= timeRemaining ]_vars

\* C3: when the Duration-th interval callback since startQuiz runs, with no
\* confirm click and no restart in between, the session is Submitted,
\* timeRemaining is 0 and score is computed from the answers recorded then,
\* whether or not the submit modal is open.
C3_AutoSubmitAfterDurationTicks ==
  [][ (ticks' = Duration /\ timerTick)
        => /\ Phase' = "Submitted"
           /\ timeRemaining' = 0
           /\ score' = LastChoiceCorrect' ]_vars

\* C4: in a session that was started and submitted (startTime and endTime
\* are set, a results or review screen is shown), a further confirm click,
\* or a further call of autoSubmitQuiz from the interval callback, changes
\* none of phase, score, endTime, startTime, userAnswers,
\* bookmarkedQuestions, currentQuestionIndex (nor, for the confirm click,
\* timeRemaining).
C4_SecondSubmitIsNoOp ==
  [][ (/\ Phase = "Submitted"
       /\ startTime # Null
       /\ endTime # Null
       /\ (ConfirmStep \/ AutoSubmitStep))
        => /\ Phase' = "Submitted"
           /\ UNCHANGED << score, endTime, startTime, userAnswers,
                           bookmarkedQuestions, currentQuestionIndex >>
           /\ (ConfirmStep => timeRemaining' = timeRemaining) ]_vars

\* The part of C5 about phase, score and endTime: from one InProgress state
\* submitQuiz and autoSubmitQuiz write the same screen, score and endTime.
C5_SameScreenScoreEndTime ==
  Phase = "InProgress"
    => /\ submitQuizResult.screen = autoSubmitQuizResult.screen
       /\ submitQuizResult.score = autoSubmitQuizResult.score
       /\ submitQuizResult.endTime = autoSubmitQuizResult.endTime

\* C5: from one InProgress state submitQuiz and autoSubmitQuiz produce the
\* same phase, score and endTime, and after either no interval is alive.
C5_SubmitPathsEquivalent ==
  Phase = "InProgress"
    => /\ submitQuizResult.screen = autoSubmitQuizResult.screen
       /\ submitQuizResult.score = autoSubmitQuizResult.score
       /\ submitQuizResult.endTime = autoSubmitQuizResult.endTime
       /\ submitQuizResult.intervals = 0
       /\ autoSubmitQuizResult.intervals = 0

\* C6: an interval is created only when no interval is alive, so at most one
\* countdown runs at any time.
C6_AtMostOneCountdown ==
  [][ intervals' > intervals => intervals = 0 ]_vars

\* C7: while the phase is NotStarted, or Submitted after a submission, the
\* interval callback does not run and timeRemaining keeps its value.
C7_FrozenOutsideInProgress ==
  [][ (Phase = "NotStarted" \/ (Phase = "Submitted" /\ endTime # Null))
        => /\ ~timerTick
           /\ (Phase' = Phase => timeRemaining' = timeRemaining) ]_vars

\* The state restartQuiz leaves in the fields it writes.
RestartPost ==
  /\ screen = "start"
  /\ currentQuestionIndex = 0
  /\ userAnswers = EmptyAnswers
  /\ bookmarkedQuestions = {}
  /\ score = 0
  /\ timeRemaining = Duration
  /\ startTime = Null
  /\ endTime = Null

\* C8: startQuiz run in a state as restartQuiz leaves it yields the initial
\* InProgress state: question 0, no answers, no bookmarks, the full duration
\* and exactly one countdown.
C8_RestartThenStartIsInitial ==
  [][ (RestartPost /\ startQuiz)
        => /\ Phase' = "InProgress"
           /\ currentQuestionIndex' = 0
           /\ userAnswers' = EmptyAnswers
           /\ bookmarkedQuestions' = {}
           /\ timeRemaining' = Duration
           /\ intervals' = 1 ]_vars

\* C9: restartQuiz, from any phase, leaves phase NotStarted, question 0, no
\* answers, no bookmarks, score 0, the full duration, startTime and endTime
\* unset and no countdown running, and keeps the question list.
C9_RestartReinitialisesAll ==
  [][ (screen' = "start" /\ restartQuiz)
        => /\ Phase' = "NotStarted"
           /\ currentQuestionIndex' = 0
           /\ userAnswers' = EmptyAnswers
           /\ bookmarkedQuestions' = {}
           /\ score' = 0
           /\ timeRemaining' = Duration
           /\ startTime' = Null
           /\ endTime' = Null
           /\ intervals' = 0
           /\ timer' = FALSE
           /\ questions' = questions ]_vars

\* C10: the phase changes only from NotStarted to InProgress by startQuiz,
\* from InProgress to Submitted by a submission, and from Submitted to
\* NotStarted by restartQuiz.
C10_OnlyThreeTransitions ==
  [][ Phase' # Phase
        => \/ Phase = "NotStarted" /\ Phase' = "InProgress" /\ startQuiz
           \/ Phase = "InProgress" /\ Phase' = "Submitted"
                /\ (ConfirmStep \/ AutoSubmitStep)
           \/ Phase = "Submitted" /\ Phase' = "NotStarted" /\ restartQuiz ]_vars

\* The second and third part of C11 alone: the callback that brings
\* timeRemaining to the threshold sets the warning class, and nothing
\* removes it.
C11_SetAtThresholdAndStays ==
  [][ /\ (timeRemaining' = WarningThreshold /\ timerTick => warning')
      /\ (warning => warning') ]_vars

\* C11: within one session (from startQuiz until restartQuiz) the warning
\* class is absent while timeRemaining is above the threshold, is set by the
\* callback that brings timeRemaining to the threshold, and stays set in
\* every later state of the session, at 0 and after submission too.
C11_WarningWithinSession ==
  [][ /\ (Phase' = "InProgress" /\ timeRemaining' > WarningThreshold
            => ~warning')
      /\ (timeRemaining' = WarningThreshold /\ timerTick => warning')
      /\ (warning /\ ~warning' => restartQuiz) ]_vars

\* C12: the warning class belongs to one session: whenever timeRemaining is
\* above the threshold (as it is after restartQuiz) the class is absent, also
\* when an earlier session reached the threshold.
C12_WarningScopedToSession ==
  timeRemaining > WarningThreshold => ~warning

\* C13: startQuiz invoked when the phase is not NotStarted changes neither
\* startTime nor the phase and creates no further interval.
C13_StartOutsideNotStartedIsNoOp ==
  [][ (Phase # "NotStarted" /\ startQuiz)
        => /\ startTime' = startTime
           /\ Phase' = Phase
           /\ intervals' = intervals ]_vars

\* C14: while loadQuestions is pending the phase stays NotStarted and no
\* countdown runs, whatever events arrive.
C14_NotStartedWhileLoading ==
  loading => (Phase = "NotStarted" /\ intervals = 0 /\ ~timer)

\* C15: once loadQuestions has completed the question list has at least one
\* question, whatever the response held.
C15_NonEmptyAfterLoad ==
  ~loading => N >= 1

\* C16: an option click, previousQuestion, nextQuestion, a grid click or
\* toggleBookmark while the phase is not InProgress leaves userAnswers,
\* bookmarkedQuestions and currentQuestionIndex unchanged.
C16_NoMutationOutsideInProgress ==
  [][ (/\ Phase # "InProgress"
       /\ (selectOption \/ previousQuestion \/ nextQuestion
             \/ goToQuestion \/ toggleBookmark))
        => UNCHANGED << userAnswers, bookmarkedQuestions,
                        currentQuestionIndex >> ]_vars

\* The session fields of the QuizApp object, the screen included; the options
\* drawn in the page are not among them.
sessionFields ==
  << questions, currentQuestionIndex, userAnswers, bookmarkedQuestions, score,
     timer, intervals, timeRemaining, startTime, endTime, screen, submitModal,
     warning >>

\* C17: goToQuestion(index) with index < 0 or index >= N leaves the whole
\* session unchanged.
C17_OutOfRangeGoToIsNoOp ==
  [][ (\E index \in CallIndices :
         ~HasQuestion(index) /\ goToQuestionAt(index))
        => UNCHANGED sessionFields ]_vars

\* C18 for a list that has questions: the current index stays inside it under
\* every event the page delivers.
C18_IndexInRangeWhenNonEmpty ==
  N >= 1 => (0 <= currentQuestionIndex /\ currentQuestionIndex < N)

\* C18: in every state after loadQuestions has completed,
\* 0 <= currentQuestionIndex < N, for every sequence of next, previous, grid
\* click, restart and submit.
C18_IndexInRange ==
  ~loading => (0 <= currentQuestionIndex /\ currentQuestionIndex < N)

\* Every session field but currentQuestionIndex.
fieldsButIndex ==
  << questions, userAnswers, bookmarkedQuestions, score, timer, intervals,
     timeRemaining, startTime, endTime, screen, submitModal, warning >>

\* C19: previousQuestion at index 0 and nextQuestion at index N - 1 change no
\* session field, so there is no wraparound; at any other index of the list
\* they move currentQuestionIndex by exactly 1, down and up, and change no
\* other session field.
C19_PreviousNextAtEdges ==
  [][ /\ (previousQuestion =>
            /\ UNCHANGED fieldsButIndex
            /\ (currentQuestionIndex = 0
                  => currentQuestionIndex' = currentQuestionIndex)
            /\ (0 < currentQuestionIndex /\ currentQuestionIndex < N
                  => currentQuestionIndex' = currentQuestionIndex - 1))
      /\ (nextQuestion =>
            /\ UNCHANGED fieldsButIndex
            /\ (currentQuestionIndex = N - 1
                  => currentQuestionIndex' = currentQuestionIndex)
            /\ (0 <= currentQuestionIndex /\ currentQuestionIndex < N - 1
                  => currentQuestionIndex' = currentQuestionIndex + 1)) ]_vars

\* The quiz shows the last of two questions, where nextQuestion has nothing
\* to move to, and the first question was answered on the way.
C19_Witness ==
  /\ N = 2
  /\ screen = "quiz"
  /\ currentQuestionIndex = N - 1
  /\ DOMAIN userAnswers = {0}

\* C20: every key of userAnswers is the index of a question, and its value is
\* the index of one of that question's options.
C20_AnswersInRange ==
  \A i \in DOMAIN userAnswers :
    /\ HasQuestion(i)
    /\ userAnswers[i] \in 0..(QuestionAt(i).options - 1)

\* C21 for records that have an answer field: in every state an unanswered
\* question has a review record that is not marked correct.
C21_UnansweredIncorrectWhenAnswerPresent ==
  \A i \in 0..(N - 1) : i \notin DOMAIN userAnswers => ~isCorrect(i)

\* C21: once the session is submitted, a question whose index is absent from
\* userAnswers is not marked correct in the review and is not counted in
\* score, for every record the fetched list may hold.
C21_UnansweredNeverCorrect ==
  (screen = "results" /\ startTime # Null /\ endTime # Null)
    => /\ \A i \in 0..(N - 1) : i \notin DOMAIN userAnswers => ~isCorrect(i)
       /\ score <= Cardinality(DOMAIN userAnswers)

C23_ShowSubmitModalOnlyReports ==
  [][ (submitModal' /\ showSubmitModal)
        => /\ submitSummary'.answered = Cardinality(DOMAIN userAnswers)
           /\ submitSummary'.total = N
           /\ submitSummary'.time = timerText(timeRemaining)
           /\ UNCHANGED << screen, userAnswers, score, endTime, timeRemaining,
                           timer, intervals >> ]_vars

\* The modal is open on the quiz screen with one of two questions answered
\* and the interval running.
C23_Witness ==
  /\ submitModal
  /\ screen = "quiz"
  /\ timer
  /\ intervals = 1
  /\ N = 2
  /\ submitSummary.answered = 1
  /\ endTime = Null

\* C24: toggleBookmark flips the membership of the current index in
\* bookmarkedQuestions and changes nothing else; a second toggle at that
\* index gives the original set back, answered question or not.
C24_ToggleBookmarkFlips ==
  [][ toggleBookmark
        => /\ (currentQuestionIndex \in bookmarkedQuestions')
                # (currentQuestionIndex \in bookmarkedQuestions)
           /\ bookmarkedQuestions' \ {currentQuestionIndex}
                = bookmarkedQuestions \ {currentQuestionIndex}
           /\ Flip(bookmarkedQuestions', currentQuestionIndex')
                = bookmarkedQuestions
           /\ UNCHANGED << questions, currentQuestionIndex, userAnswers, score,
                           timer, intervals, timeRemaining, startTime, endTime,
                           screen, submitModal, warning >> ]_vars

\* On the quiz screen question 1 is bookmarked and question 0 is not, and
\* question 0 is answered.
C24_Witness ==
  /\ screen = "quiz"
  /\ N = 2
  /\ bookmarkedQuestions = {1}
  /\ DOMAIN userAnswers = {0}

\* C25: for every N >= 1 and every score in 0..N the percentage on the
\* results screen is 100 * score / N rounded half up, that is
\* floor((200 * score + N) / (2 * N)), and lies in 0..100.
C25_PercentageRoundsHalfUp ==
  (screen = "results" /\ N >= 1 /\ score \in 0..N)
    => /\ percentage(score, N) = (200 * score + N) \div (2 * N)
       /\ percentage(score, N) \in 0..100

\* C26: in every state with phase Submitted, score is the number of review
\* records marked correct; nothing done after the submission makes the two
\* differ.
C26_ScoreMatchesReview ==
  (Phase = "Submitted" /\ startTime # Null /\ endTime # Null)
    => score = Cardinality(reviewCorrect)

\* C27: in every state with phase Submitted, startTime and endTime are both
\* set, startTime <= endTime, and the time taken shown on the results screen
\* is endTime - startTime.
C27_StartBeforeEnd ==
  Phase = "Submitted"
    => /\ startTime # Null
       /\ endTime # Null
       /\ startTime <= endTime
       /\ totalTimeTaken = endTime - startTime

\* C28: the interval callback leaves userAnswers, bookmarkedQuestions and
\* currentQuestionIndex unchanged, and above 0 it changes none of the
\* submission fields either; an option click, a grid click, nextQuestion,
\* previousQuestion and toggleBookmark leave timeRemaining, the phase and
\* startTime unchanged.  The two kinds of step write disjoint fields, so
\* their order does not matter for either.
C28_TicksAndUserActionsDisjoint ==
  [][ /\ (timerTick =>
            /\ UNCHANGED << userAnswers, bookmarkedQuestions,
                            currentQuestionIndex >>
            /\ (timeRemaining' > 0 =>
                  UNCHANGED << score, startTime, endTime, screen, timer,
                               intervals >>))
      /\ ((selectOption \/ goToQuestion \/ nextQuestion \/ previousQuestion
             \/ toggleBookmark)
            => UNCHANGED << timeRemaining, screen, startTime >>) ]_vars

\* In progress after a tick, with an answer recorded, a bookmark set and the
\* second question current.
C28_Witness ==
  /\ screen = "quiz"
  /\ N = 2
  /\ timeRemaining = Duration - 1
  /\ intervals = 1
  /\ DOMAIN userAnswers = {0}
  /\ bookmarkedQuestions = {0}
  /\ currentQuestionIndex = 1

\* C29: a key event changes something only when the quiz screen is active,
\* and then the step is a nextQuestion or a previousQuestion step; on every
\* other screen it changes nothing.
C29_KeysOnlyOnQuizScreen ==
  [][ handleKeyPress
        => IF isQuizActive
           THEN nextQuestion \/ previousQuestion \/ UNCHANGED vars
           ELSE UNCHANGED vars ]_vars

\* The second question is current on the quiz screen, and nothing but
\* navigation has happened since the start.
C29_Witness ==
  /\ isQuizActive
  /\ N = 2
  /\ currentQuestionIndex = 1
  /\ userAnswers = EmptyAnswers
  /\ bookmarkedQuestions = {}
  /\ timeRemaining = Duration

\* C30: in every state the text written for timeRemaining has
\* 0 <= seconds <= 59 and minutes * 60 + seconds = timeRemaining, in the
\* timer display and in the submit modal.
C30_DisplayedTimeMatches ==
  /\ timerText(timeRemaining).seconds \in 0..59
  /\ timerText(timeRemaining).minutes * 60 + timerText(timeRemaining).seconds
       = timeRemaining
  /\ submitSummary.time = timerText(timeRemaining)

\* C30 for a countdown that has not gone below zero.
C30_DisplayedTimeMatchesFromZero ==
  timeRemaining >= 0
    => /\ timerText(timeRemaining).seconds \in 0..59
       /\ timerText(timeRemaining).minutes * 60
            + timerText(timeRemaining).seconds = timeRemaining

\* A step that sets location.href to another address, one of the quiz page.
quizNavigation == href' # href /\ href'[1] = "/quiz.html"

\* C31: on the home page, navigation to the quiz page happens only when a
\* Notion page is selected and the generate-quiz request came back with
\* status 'success'; startQuiz sends no request when no page is selected, a
\* request that fails or is rejected causes no navigation, and whatever a
\* sent request comes back with, the loading overlay is hidden again.
C31_QuizNavigationOnlyWhenSelectedAndSuccess ==
  [][ /\ (startQuizHome /\ pageSelect = NoPage) => quizRequests' = quizRequests
      /\ \A i \in 1..Len(quizRequests) : \A r \in Outcomes :
           startQuizReturnsWith(i, r) =>
             /\ loadingHidden'
             /\ quizNavigation => (r = "success" /\ pageSelect # NoPage) ]_vars

\* What does hold of startQuiz: no request is sent without a selected page,
\* every request carries the title selected when it was sent, only status
\* 'success' navigates, and each outcome hides the overlay.  The page named
\* in the address is the one selected when the response arrives.
C31_QuizNavigationOnlyOnSuccessOfRequest ==
  [][ /\ (startQuizHome /\ pageSelect = NoPage) => quizRequests' = quizRequests
      /\ \A i \in 1..Len(quizRequests) : \A r \in Outcomes :
           startQuizReturnsWith(i, r) =>
             /\ loadingHidden'
             /\ quizRequests[i] # NoPage
             /\ quizNavigation => (r = "success" /\ href' = quizUrl(pageSelect)) ]_vars

====
